---- MODULE Spec2Model ----
(***************************************************************************)
(* Model of the sampling-and-history engine of rust_resource_viewer        *)
(* (src/src/main.rs): SystemData::update_system_info, the updater task and *)
(* the render loop of run_app, and the tokio RwLock that guards the shared *)
(* SystemData.                                                             *)
(***************************************************************************)
EXTENDS Integers, Sequences, FiniteSets, TLC

(***************************************************************************)
(* Bounds.  The history capacity is 500 and the process table size is 100  *)
(* in main.rs (lines 52, 81 and 128); the model runs the same code with    *)
(* small capacities so that eviction and truncation happen within a few    *)
(* ticks.                                                                  *)
(***************************************************************************)
Cap == 2

TopN == 2

\* number of executions of update_system_info explored (the call of
\* line 178 included): enough for two overflowing pushes
MaxTicks == Cap + 2

\* divisor of line 50, applied three times (bytes -> GiB)
Kibi == 1024

\* one GiB in bytes; the metric source reports whole GiB so that the f64
\* division of line 50 is exact
Gi == Kibi * Kibi * Kibi

(***************************************************************************)
(* f32 values of the process shares: a finite number, +inf or NaN.         *)
(***************************************************************************)
Num(n) == [kind |-> "num", val |-> n]

Inf == [kind |-> "inf", val |-> 0]

NaN == [kind |-> "nan", val |-> 0]

\* p.cpu_usage() / num_cpus in f32 (line 115); x is a finite share >= 0.
\* The shares and CPU counts of the model divide exactly.
DivF32(x, n) ==
    IF n = 0
    THEN IF x = 0 THEN NaN ELSE Inf
    ELSE Num(x \div n)

\* f32::partial_cmp (line 121): None when either side is NaN
partial_cmp(a, b) ==
    IF a.kind = "nan" \/ b.kind = "nan" THEN "None"
    ELSE IF a.kind = "inf" /\ b.kind = "inf" THEN "Equal"
    ELSE IF a.kind = "inf" THEN "Greater"
    ELSE IF b.kind = "inf" THEN "Less"
    ELSE IF a.val < b.val THEN "Less"
    ELSE IF a.val > b.val THEN "Greater"
    ELSE "Equal"

\* format!("{:.2}%", cpu) (line 130) on the values DivF32 produces
FormatPct(s) ==
    IF s.kind = "nan" THEN "NaN%"
    ELSE IF s.kind = "inf" THEN "inf%"
    ELSE ToString(s.val) \o ".00%"

\* ToGB with one division missing
ToGB_TwoDivisions(bytes) == (bytes \div Kibi) \div Kibi

\* (used_memory as f64) / 1024.0 / 1024.0 / 1024.0 (line 50)
ToGB(bytes) == ((bytes \div Kibi) \div Kibi) \div Kibi

\* format!("CPU {}", cpu.name()) (line 63)
CpuLabel(name) == "CPU " \o name

(***************************************************************************)
(* Bounded history buffer: push, then remove(0) when longer than the       *)
(* capacity (lines 49-54 and 80-83).                                       *)
(***************************************************************************)
\* PushBounded evicting as soon as the capacity is reached
PushBounded_EvictsEarly(buf, v) ==
    LET pushed == Append(buf, v)
    IN  IF Len(pushed) >= Cap THEN Tail(pushed) ELSE pushed

PushBounded(buf, v) ==
    LET pushed == Append(buf, v)
    IN  IF Len(pushed) > Cap THEN Tail(pushed) ELSE pushed

\* create_tuple_vec_for_graph with the enumerate index used as it is
create_tuple_vec_for_graph_ZeroBased(data) ==
    [i \in 1..Len(data) |-> <<i - 1, data[i]>>]

\* create_tuple_vec_for_graph (lines 440-446)
create_tuple_vec_for_graph(data) ==
    [i \in 1..Len(data) |-> <<i, data[i]>>]

(***************************************************************************)
(* CPU identity registry (lines 62-85).                                    *)
(***************************************************************************)
\* Position comparing against the raw name, so that nothing is ever found
Position_NeverFound(cpus, cpu_name) == 0

\* self.cpus.iter().position(|x| x.name == cpu_name): 0 stands for None
Position(cpus, cpu_name) ==
    IF \E i \in 1..Len(cpus) : cpus[i].name = cpu_name
    THEN CHOOSE i \in 1..Len(cpus) :
            /\ cpus[i].name = cpu_name
            /\ \A j \in 1..(i - 1) : cpus[j].name # cpu_name
    ELSE 0

NewCPUData(cpu_name) ==
    [name |-> cpu_name, raw_data |-> <<>>, data |-> <<>>, color |-> "Green"]

\* ObserveCpu pushing the usage into the buffer of every identity
ObserveCpu_PushesAll(cpus, raw_name, usage) ==
    LET cpu_name == CpuLabel(raw_name)
        found == Position(cpus, cpu_name)
        list == IF found = 0 THEN Append(cpus, NewCPUData(cpu_name)) ELSE cpus
    IN  [k \in 1..Len(list) |->
            LET raw == PushBounded(list[k].raw_data, usage)
            IN  [list[k] EXCEPT !.raw_data = raw,
                                !.data = create_tuple_vec_for_graph(raw)]]

\* ObserveCpu without the remove(0) of lines 81-83
ObserveCpu_NoEviction(cpus, raw_name, usage) ==
    LET cpu_name == CpuLabel(raw_name)
        found == Position(cpus, cpu_name)
        list == IF found = 0 THEN Append(cpus, NewCPUData(cpu_name)) ELSE cpus
        cpu_index == IF found = 0 THEN Len(list) ELSE found
        raw == Append(list[cpu_index].raw_data, usage)
    IN  [list EXCEPT ![cpu_index] =
            [@ EXCEPT !.raw_data = raw,
                      !.data = create_tuple_vec_for_graph(raw)]]

ObserveCpu(cpus, raw_name, usage) ==
    LET cpu_name == CpuLabel(raw_name)
        found == Position(cpus, cpu_name)
        list == IF found = 0 THEN Append(cpus, NewCPUData(cpu_name)) ELSE cpus
        cpu_index == IF found = 0 THEN Len(list) ELSE found
        raw == PushBounded(list[cpu_index].raw_data, usage)
    IN  [list EXCEPT ![cpu_index] =
            [@ EXCEPT !.raw_data = raw,
                      !.data = create_tuple_vec_for_graph(raw)]]

(***************************************************************************)
(* Network aggregation (lines 89-104): reduce over the interfaces,         *)
(* (0, 0) when there is none.  The counters are u64; the model keeps them  *)
(* far below 2^64.                                                         *)
(***************************************************************************)
\* Reduce adding the received packets to both totals
RECURSIVE Reduce_ReceivedTwice(_, _)
Reduce_ReceivedTwice(acc, nets) ==
    IF nets = <<>> THEN acc
    ELSE Reduce_ReceivedTwice(
            <<acc[1] + Head(nets).rx, acc[2] + Head(nets).rx>>, Tail(nets))

RECURSIVE Reduce(_, _)
Reduce(acc, nets) ==
    IF nets = <<>> THEN acc
    ELSE Reduce(<<acc[1] + Head(nets).rx, acc[2] + Head(nets).tx>>, Tail(nets))

Aggregate(networks) ==
    IF networks = <<>> THEN <<0, 0>>
    ELSE Reduce(<<Head(networks).rx, Head(networks).tx>>, Tail(networks))

Packets(networks) ==
    LET totals == Aggregate(networks)
    IN  << <<"Packets In", totals[1]>>, <<"Packets Out", totals[2]>> >>

(***************************************************************************)
(* Process ranking (lines 107-133).                                        *)
(***************************************************************************)
\* lines 109-118: (pid text, name, share / num_cpus) in iteration order
Normalized(procs, num_cpus) ==
    [i \in 1..Len(procs) |->
        [pid |-> ToString(procs[i].pid),
         name |-> procs[i].name,
         cpu |-> DivF32(procs[i].cpu_usage, num_cpus)]]

\* the comparator of line 121 unwraps None: any slice of two or more rows
\* with a NaN share panics, because every row takes part in a comparison
SortPanics(rows) ==
    /\ Len(rows) >= 2
    /\ \E i \in 1..Len(rows) : rows[i].cpu.kind = "nan"

\* InsertStable that puts x before the rows equal to it
RECURSIVE InsertStable_BeforeEquals(_, _)
InsertStable_BeforeEquals(sorted, x) ==
    IF sorted = <<>> THEN <<x>>
    ELSE IF partial_cmp(sorted[Len(sorted)].cpu, x.cpu) \in {"Greater", "Equal"}
         THEN Append(InsertStable_BeforeEquals(
                        SubSeq(sorted, 1, Len(sorted) - 1), x),
                     sorted[Len(sorted)])
         ELSE Append(sorted, x)

\* stable insertion of x into an ascending sequence: x goes after every
\* row that is not greater than it
RECURSIVE InsertStable(_, _)
InsertStable(sorted, x) ==
    IF sorted = <<>> THEN <<x>>
    ELSE IF partial_cmp(sorted[Len(sorted)].cpu, x.cpu) = "Greater"
         THEN Append(InsertStable(SubSeq(sorted, 1, Len(sorted) - 1), x),
                     sorted[Len(sorted)])
         ELSE Append(sorted, x)

\* slice::sort_by (lines 120-122): stable, ascending
RECURSIVE SortBy(_)
SortBy(rows) ==
    IF rows = <<>> THEN <<>>
    ELSE InsertStable(SortBy(SubSeq(rows, 1, Len(rows) - 1)), rows[Len(rows)])

\* TopProcesses without the rev(): the head of the ascending order
TopProcesses_NoRev(sorted) ==
    LET n == IF Len(sorted) < TopN THEN Len(sorted) ELSE TopN
    IN  [i \in 1..n |->
            <<sorted[i].pid, sorted[i].name, FormatPct(sorted[i].cpu)>>]

\* lines 125-132: .rev().take(100).map(format)
TopProcesses(sorted) ==
    LET n == IF Len(sorted) < TopN THEN Len(sorted) ELSE TopN
    IN  [i \in 1..n |->
            LET row == sorted[Len(sorted) + 1 - i]
            IN  <<row.pid, row.name, FormatPct(row.cpu)>>]

Rank(procs, num_cpus) == TopProcesses(SortBy(Normalized(procs, num_cpus)))

(***************************************************************************)
(* The metric source.  A raw snapshot is what System holds after           *)
(* refresh_all (line 46): memory figures in bytes, the global CPU (name    *)
(* and usage), the interfaces' packet counters, the processes in the       *)
(* iteration order of the process map, and the number of logical CPUs.     *)
(***************************************************************************)
UsedMemory == {0, Gi}

CpuNames == {"0", "1"}

CpuUsages == {0, 50}

MaxProcs == TopN + 1

Pids == 1..MaxProcs

\* raw CPU shares of the processes; multiples of every CPU count below
ProcUsages == {0, 2}

NumCpus == {0, 1, 2}

Process(pid, usage) ==
    [pid |-> pid, name |-> "proc" \o ToString(pid), cpu_usage |-> usage]

\* every list of at most MaxProcs processes with distinct pids, in every
\* iteration order
ProcessLists ==
    UNION { { [i \in 1..n |-> Process(ord[i], use[i])] :
                ord \in { f \in [1..n -> Pids] :
                            \A i, j \in 1..n : i # j => f[i] # f[j] },
                use \in [1..n -> ProcUsages] } :
            n \in 0..MaxProcs }

Interface(rx, tx) == [rx |-> rx, tx |-> tx]

NetworkLists ==
    { <<>>,
      <<Interface(3, 1)>>,
      <<Interface(3, 1), Interface(4, 6)>>,
      <<Interface(0, 7), Interface(2, 2), Interface(5, 0)>> }

Workload(nets, procs, n) ==
    [networks |-> nets, processes |-> procs, num_cpus |-> n]

\* two hosts: an ordinary one with more processes than table rows, and one
\* that reports no logical CPU
Workloads ==
    { Workload(<<Interface(3, 1), Interface(4, 6)>>,
               <<Process(1, 2), Process(2, 0), Process(3, 2)>>, 2),
      Workload(<<Interface(3, 1)>>,
               <<Process(2, 0), Process(1, 0)>>, 0) }

AllWorkloads ==
    { Workload(nets, procs, n) :
        nets \in NetworkLists, procs \in ProcessLists, n \in NumCpus }

RawSnapshots(mems, names, usages, loads) ==
    { [used_memory |-> m, total_memory |-> Gi,
       cpu_name |-> c, cpu_usage |-> u,
       networks |-> w.networks, processes |-> w.processes,
       num_cpus |-> w.num_cpus] :
        m \in mems, c \in names, u \in usages, w \in loads }

\* sources that vary the history streams
HistorySources == RawSnapshots(UsedMemory, CpuNames, CpuUsages, Workloads)

\* sources with steady history streams
BootSources == RawSnapshots({Gi}, {"0"}, {50}, Workloads)

\* sources that vary the interfaces and the process table
LoadSources == RawSnapshots({Gi}, {"0"}, {50}, AllWorkloads)

\* what refresh_all may deliver at the n-th execution of update_system_info
\* when the full range of workloads comes at the updater's first tick
LoadSchedule(n) == IF n = 2 THEN LoadSources ELSE BootSources

(***************************************************************************)
(* State.  The fields of SystemData (lines 25-34), the RwLock around it    *)
(* (line 180), the position of the updater task (lines 183-188) and of     *)
(* run_app itself (lines 165-207), and history variables that record what  *)
(* the program was fed.                                                    *)
(***************************************************************************)
VARIABLES
    system,                 \* the raw snapshot held by sysinfo's System
    total_memory,
    memory_usage,
    memory_usage_as_tuple,
    cpus,
    cpu_usage,
    packets,
    processes,
    readers,                \* RwLock: number of read guards alive
    writer,                 \* RwLock: a write guard is alive
    waiters,                \* RwLock: FIFO queue of the tasks waiting
    upc,                    \* updater task
    rpc,                    \* run_app / render loop
    nticks,                 \* history: executions of update_system_info begun
    memFed,                 \* history: used_memory of every execution
    cpuFed,                 \* history: (name, usage) of every observed CPU
    gen,                    \* history: the execution that last wrote each part
    published               \* history: the snapshot after the last whole execution

snapshot_vars ==
    <<total_memory, memory_usage, memory_usage_as_tuple, cpus, cpu_usage,
      packets, processes>>

lock_vars == <<readers, writer, waiters>>

vars ==
    <<system, total_memory, memory_usage, memory_usage_as_tuple, cpus,
      cpu_usage, packets, processes, readers, writer, waiters, upc, rpc,
      nticks, memFed, cpuFed, gen, published>>

\* the fields a reader of the snapshot is handed
Snapshot ==
    [total_memory |-> total_memory,
     memory_usage |-> memory_usage,
     memory_usage_as_tuple |-> memory_usage_as_tuple,
     cpus |-> cpus,
     cpu_usage |-> cpu_usage,
     packets |-> packets,
     processes |-> processes]

\* lines 168-177, before the call of line 178
InitWith(sources) ==
    /\ system \in sources
    /\ total_memory = 0
    /\ memory_usage = <<>>
    /\ memory_usage_as_tuple = <<>>
    /\ cpus = <<>>
    /\ cpu_usage = 0
    /\ packets = << <<"Packets In", 0>>, <<"Packets Out", 0>> >>
    /\ processes = <<>>
    /\ readers = 0
    /\ writer = FALSE
    /\ waiters = <<>>
    /\ upc = "unspawned"
    /\ rpc = "init"
    /\ nticks = 0
    /\ memFed = <<>>
    /\ cpuFed = <<>>
    /\ gen = [memory |-> 0, cpu |-> 0, network |-> 0, processes |-> 0]
    /\ published = Snapshot

\* the process is alive: main has neither returned nor panicked
Running == rpc \notin {"exited", "crashed"}

(***************************************************************************)
(* The four parts of update_system_info, each writing self in place.       *)
(***************************************************************************)
\* lines 46-57
MemorySection(raw) ==
    /\ system' = raw
    /\ memory_usage' = PushBounded(memory_usage, ToGB(raw.used_memory))
    /\ total_memory' = raw.total_memory
    /\ memory_usage_as_tuple' = create_tuple_vec_for_graph(memory_usage')
    /\ nticks' = nticks + 1
    /\ memFed' = Append(memFed, raw.used_memory)

\* lines 60-86
CpuSection(raw) ==
    /\ cpus' = ObserveCpu(cpus, raw.cpu_name, raw.cpu_usage)
    /\ cpu_usage' = raw.cpu_usage
    /\ cpuFed' = Append(cpuFed, <<raw.cpu_name, raw.cpu_usage>>)

\* lines 89-104
NetworkSection(raw) ==
    packets' = Packets(raw.networks)

\* lines 107-122 panic in the comparator
ProcessesPanic(raw) ==
    SortPanics(Normalized(raw.processes, raw.num_cpus))

\* lines 107-133
ProcessesSection(raw) ==
    processes' = Rank(raw.processes, raw.num_cpus)

(***************************************************************************)
(* tokio::sync::RwLock (lines 180, 185, 191): a fair lock.  A request is   *)
(* granted at once when nothing conflicts and nobody waits, and queues     *)
(* otherwise; dropping a guard hands the lock to the head of the queue.    *)
(***************************************************************************)
CanRead == ~writer /\ waiters = <<>>

CanWrite == ~writer /\ readers = 0 /\ waiters = <<>>

\* HandOff that forgets the queue: the waiting task is never granted
HandOff_LostWakeup(r, upcNext, rpcNext) ==
    /\ writer' = FALSE
    /\ readers' = r
    /\ waiters' = waiters
    /\ upc' = upcNext
    /\ rpc' = rpcNext

\* the lock after a guard is dropped, leaving r read guards and no write
\* guard: the head of the queue is granted if it can be
HandOff(r, upcNext, rpcNext) ==
    IF waiters # <<>> /\ Head(waiters) = "updater" /\ r = 0
    THEN /\ writer' = TRUE
         /\ readers' = r
         /\ waiters' = Tail(waiters)
         /\ upc' = "memory"
         /\ rpc' = rpcNext
    ELSE IF waiters # <<>> /\ Head(waiters) = "reader"
    THEN /\ writer' = FALSE
         /\ readers' = r + 1
         /\ waiters' = Tail(waiters)
         /\ upc' = upcNext
         /\ rpc' = "draw"
    ELSE /\ writer' = FALSE
         /\ readers' = r
         /\ waiters' = waiters
         /\ upc' = upcNext
         /\ rpc' = rpcNext

\* the snapshot as the step leaves it
SnapshotNext ==
    [total_memory |-> total_memory',
     memory_usage |-> memory_usage',
     memory_usage_as_tuple |-> memory_usage_as_tuple',
     cpus |-> cpus',
     cpu_usage |-> cpu_usage',
     packets |-> packets',
     processes |-> processes']

(***************************************************************************)
(* run_app before the loops: the first update_system_info (line 178) runs  *)
(* on the state run_app still owns, then the state is shared and the       *)
(* updater task is spawned (lines 180-188).                                *)
(***************************************************************************)
\* InitialUpdate without the call of line 178: the state is shared as it
\* was constructed
InitialUpdate_Skipped(sources) ==
    /\ rpc = "init"
    /\ upc' = "write"
    /\ rpc' = "read"
    /\ UNCHANGED <<system, snapshot_vars, lock_vars, nticks, memFed, cpuFed,
                   gen, published>>

InitialUpdate(sources) ==
    /\ rpc = "init"
    /\ \E raw \in sources :
        /\ ~ProcessesPanic(raw)
        /\ MemorySection(raw)
        /\ CpuSection(raw)
        /\ NetworkSection(raw)
        /\ ProcessesSection(raw)
    /\ gen' = [memory |-> nticks', cpu |-> nticks', network |-> nticks',
               processes |-> nticks']
    /\ published' = SnapshotNext
    /\ upc' = "write"
    /\ rpc' = "read"
    /\ UNCHANGED lock_vars

\* the comparator of line 121 panics inside the call of line 178: run_app
\* unwinds and the process ends
InitialPanic(sources) ==
    /\ rpc = "init"
    /\ \E raw \in sources :
        /\ ProcessesPanic(raw)
        /\ MemorySection(raw)
        /\ CpuSection(raw)
        /\ NetworkSection(raw)
    /\ gen' = [gen EXCEPT !.memory = nticks', !.cpu = nticks',
                          !.network = nticks']
    /\ rpc' = "crashed"
    /\ UNCHANGED <<processes, published, upc, lock_vars>>

(***************************************************************************)
(* The updater task (lines 183-188).                                       *)
(***************************************************************************)
\* loop_system_data.write().await (line 185)
UpdaterWrite ==
    /\ Running
    /\ upc = "write"
    /\ nticks < MaxTicks
    /\ IF CanWrite
       THEN /\ writer' = TRUE
            /\ upc' = "memory"
            /\ UNCHANGED <<readers, waiters>>
       ELSE /\ waiters' = Append(waiters, "updater")
            /\ upc' = "wait_write"
            /\ UNCHANGED <<readers, writer>>
    /\ UNCHANGED <<system, snapshot_vars, rpc, nticks, memFed, cpuFed, gen,
                   published>>

\* update_system_info under the write guard, lines 46-57
UpdateMemory(sources) ==
    /\ Running
    /\ upc = "memory"
    /\ \E raw \in sources : MemorySection(raw)
    /\ gen' = [gen EXCEPT !.memory = nticks']
    /\ upc' = "cpu"
    /\ UNCHANGED <<cpus, cpu_usage, packets, processes, lock_vars, rpc,
                   cpuFed, published>>

\* lines 60-86
UpdateCpu ==
    /\ Running
    /\ upc = "cpu"
    /\ CpuSection(system)
    /\ gen' = [gen EXCEPT !.cpu = nticks]
    /\ upc' = "network"
    /\ UNCHANGED <<system, total_memory, memory_usage, memory_usage_as_tuple,
                   packets, processes, lock_vars, rpc, nticks, memFed,
                   published>>

\* lines 89-104
UpdateNetwork ==
    /\ Running
    /\ upc = "network"
    /\ NetworkSection(system)
    /\ gen' = [gen EXCEPT !.network = nticks]
    /\ upc' = "processes"
    /\ UNCHANGED <<system, total_memory, memory_usage, memory_usage_as_tuple,
                   cpus, cpu_usage, processes, lock_vars, rpc, nticks, memFed,
                   cpuFed, published>>

\* lines 107-133, then the write guard of line 185 is dropped and the task
\* goes to sleep (line 186)
UpdateProcesses ==
    /\ Running
    /\ upc = "processes"
    /\ ~ProcessesPanic(system)
    /\ ProcessesSection(system)
    /\ gen' = [gen EXCEPT !.processes = nticks]
    /\ HandOff(readers, "sleep", rpc)
    /\ UNCHANGED <<system, total_memory, memory_usage, memory_usage_as_tuple,
                   cpus, cpu_usage, packets, nticks, memFed, cpuFed>>
    /\ published' = SnapshotNext

\* UpdaterPanic that leaves the write guard behind, as a poisoned or
\* leaked guard would
UpdaterPanic_KeepsGuard ==
    /\ Running
    /\ upc = "processes"
    /\ ProcessesPanic(system)
    /\ upc' = "panicked"
    /\ UNCHANGED <<system, snapshot_vars, lock_vars, rpc, nticks, memFed,
                   cpuFed, gen, published>>

\* the comparator of line 121 panics: the task unwinds, which drops the
\* write guard (a tokio RwLock is not poisoned), and the task is gone
UpdaterPanic ==
    /\ Running
    /\ upc = "processes"
    /\ ProcessesPanic(system)
    /\ HandOff(readers, "panicked", rpc)
    /\ UNCHANGED <<system, snapshot_vars, nticks, memFed, cpuFed, gen,
                   published>>

\* tokio::time::sleep elapses (line 186)
UpdaterWake ==
    /\ Running
    /\ upc = "sleep"
    /\ upc' = "write"
    /\ UNCHANGED <<system, snapshot_vars, lock_vars, rpc, nticks, memFed,
                   cpuFed, gen, published>>

(***************************************************************************)
(* The render loop (lines 190-206).  The read guard of line 191 is a       *)
(* local of the loop body: it lives until the end of the iteration, or     *)
(* until run_app returns.                                                  *)
(***************************************************************************)
\* system_data.read().await (line 191)
ReaderRead ==
    /\ rpc = "read"
    /\ IF CanRead
       THEN /\ readers' = readers + 1
            /\ rpc' = "draw"
            /\ UNCHANGED <<writer, waiters>>
       ELSE /\ waiters' = Append(waiters, "reader")
            /\ rpc' = "wait_read"
            /\ UNCHANGED <<readers, writer>>
    /\ UNCHANGED <<system, snapshot_vars, upc, nticks, memFed, cpuFed, gen,
                   published>>

\* terminal.draw(ui) succeeds (lines 192-194)
ReaderDraw ==
    /\ rpc = "draw"
    /\ rpc' = "poll"
    /\ UNCHANGED <<system, snapshot_vars, lock_vars, upc, nticks, memFed,
                   cpuFed, gen, published>>

\* event::poll times out, or the event is not the key q (lines 196-205):
\* the iteration ends and the read guard is dropped
ReaderLoop ==
    /\ rpc = "poll"
    /\ HandOff(readers - 1, upc, "read")
    /\ UNCHANGED <<system, snapshot_vars, nticks, memFed, cpuFed, gen,
                   published>>

\* run_app returns: the key q (line 200), or an error of draw, poll or read
\* propagated by ? (lines 194, 196, 197); the read guard is dropped
ReaderReturn ==
    /\ rpc \in {"draw", "poll"}
    /\ HandOff(readers - 1, upc, "returned")
    /\ UNCHANGED <<system, snapshot_vars, nticks, memFed, cpuFed, gen,
                   published>>

\* main restores the terminal and returns (lines 154-162): the runtime is
\* shut down and the updater task with it
MainExit ==
    /\ rpc = "returned"
    /\ rpc' = "exited"
    /\ UNCHANGED <<system, snapshot_vars, lock_vars, upc, nticks, memFed,
                   cpuFed, gen, published>>

Init == InitWith(HistorySources)

Next ==
    \/ InitialUpdate(HistorySources)
    \/ InitialPanic(HistorySources)
    \/ UpdaterWrite
    \/ UpdateMemory(HistorySources)
    \/ UpdateCpu
    \/ UpdateNetwork
    \/ UpdateProcesses
    \/ UpdaterPanic
    \/ UpdaterWake
    \/ ReaderRead
    \/ ReaderDraw
    \/ ReaderLoop
    \/ ReaderReturn
    \/ MainExit

\* the program fed by sources that vary the history streams
Spec == Init /\ [][Next]_vars

InitLoad == InitWith(BootSources)

NextLoad ==
    \/ InitialUpdate(LoadSchedule(nticks + 1))
    \/ InitialPanic(LoadSchedule(nticks + 1))
    \/ UpdaterWrite
    \/ UpdateMemory(LoadSchedule(nticks + 1))
    \/ UpdateCpu
    \/ UpdateNetwork
    \/ UpdateProcesses
    \/ UpdaterPanic
    \/ UpdaterWake
    \/ ReaderRead
    \/ ReaderDraw
    \/ ReaderLoop
    \/ ReaderReturn
    \/ MainExit

\* the program fed by sources that vary the interfaces and the processes
SpecLoad == InitLoad /\ [][NextLoad]_vars

InitFair == InitWith(BootSources)

NextFair ==
    \/ InitialUpdate(BootSources)
    \/ InitialPanic(BootSources)
    \/ UpdaterWrite
    \/ UpdateMemory(BootSources)
    \/ UpdateCpu
    \/ UpdateNetwork
    \/ UpdateProcesses
    \/ UpdaterPanic
    \/ UpdaterWake
    \/ ReaderRead
    \/ ReaderDraw
    \/ ReaderLoop
    \/ ReaderReturn
    \/ MainExit

\* what the scheduling guarantees: the synchronous code between two awaits
\* runs to its end (update_system_info under the write guard, one draw),
\* and event::poll returns after its timeout of 100 ms at the latest, which
\* ends the iteration or run_app.  Nothing forces the updater's timer, the
\* requests for the lock or the exit of main.
Fairness ==
    /\ WF_vars(UpdateMemory(BootSources))
    /\ WF_vars(UpdateCpu)
    /\ WF_vars(UpdateNetwork)
    /\ WF_vars(UpdateProcesses)
    /\ WF_vars(UpdaterPanic)
    /\ WF_vars(ReaderDraw)
    /\ WF_vars(ReaderLoop \/ ReaderReturn)

\* the program on a steady source, with the fairness of its scheduling
SpecFair == InitFair /\ [][NextFair]_vars /\ Fairness

TypeOK ==
    /\ readers \in 0..1
    /\ writer \in BOOLEAN
    /\ Len(waiters) <= 1
    /\ ~(writer /\ readers > 0)
    /\ nticks \in 0..MaxTicks

(***************************************************************************)
(* Properties.                                                             *)
(***************************************************************************)
\* the last n elements of a sequence
LastN(seq, n) ==
    IF Len(seq) <= n THEN seq ELSE SubSeq(seq, Len(seq) - n + 1, Len(seq))

\* the values pushed into the memory buffer so far, in GiB
MemPushed == [i \in 1..Len(memFed) |-> memFed[i] \div Gi]

\* the usages pushed so far for the CPU identity called label
CpuPushed(label) ==
    LET sel == SelectSeq(cpuFed, LAMBDA e : ("CPU " \o e[1]) = label)
    IN  [i \in 1..Len(sel) |-> sel[i][2]]

\* C1: every history buffer (the memory buffer and each CPU identity's
\* raw buffer) is never longer than the capacity and holds the most
\* recently pushed values, at most capacity many, in push order.
C1_BoundedHistory ==
    /\ Len(memory_usage) <= Cap
    /\ memory_usage = LastN(MemPushed, Cap)
    /\ \A k \in 1..Len(cpus) :
        /\ Len(cpus[k].raw_data) <= Cap
        /\ cpus[k].raw_data = LastN(CpuPushed(cpus[k].name), Cap)

\* two overflowing pushes into the memory buffer and an overflowing push
\* into a CPU buffer, with values that tell the order
C1_Witness ==
    /\ Len(memFed) >= Cap + 2
    /\ memory_usage[1] # memory_usage[Cap]
    /\ \E k \in 1..Len(cpus) :
        /\ Len(CpuPushed(cpus[k].name)) > Cap
        /\ cpus[k].raw_data[1] # cpus[k].raw_data[Cap]

IsSeriesOf(series, buf) ==
    /\ Len(series) = Len(buf)
    /\ \A i \in 1..Len(buf) : series[i] = <<i, buf[i]>>

\* C4: every materialized series is the sequence (i, buffer[i]) for
\* i = 1..L of its buffer of length L, whatever was evicted before.
C4_Series ==
    /\ IsSeriesOf(memory_usage_as_tuple, memory_usage)
    /\ \A k \in 1..Len(cpus) : IsSeriesOf(cpus[k].data, cpus[k].raw_data)

\* both kinds of buffer have evicted and are full
C4_Witness ==
    /\ Len(memFed) > Cap
    /\ Len(memory_usage_as_tuple) = Cap
    /\ \E k \in 1..Len(cpus) :
        /\ Len(CpuPushed(cpus[k].name)) > Cap
        /\ Len(cpus[k].data) = Cap

\* the distinct elements of a sequence in the order of their first occurrence
RECURSIVE FirstSeen(_)
FirstSeen(names) ==
    IF names = <<>> THEN <<>>
    ELSE LET rest == FirstSeen(SubSeq(names, 1, Len(names) - 1))
             last == names[Len(names)]
         IN  IF \E i \in 1..Len(rest) : rest[i] = last
             THEN rest
             ELSE Append(rest, last)

\* C6: the names of the CPU identity list are the distinct CPU names
\* observed so far, each once, in first-seen order (so none is removed or
\* moved).
C6_Identities ==
    [k \in 1..Len(cpus) |-> cpus[k].name]
        = FirstSeen([i \in 1..Len(cpuFed) |-> "CPU " \o cpuFed[i][1]])

\* a name, another name, then the first name again
C6_Witness ==
    /\ Len(cpuFed) >= 3
    /\ cpuFed[1][1] # cpuFed[2][1]
    /\ cpuFed[3][1] = cpuFed[1][1]
    /\ Len(cpus) = 2

NormShare(p) == p.cpu_usage \div system.num_cpus

\* the raw row of the current snapshot that a table row was made from
RowSource(row) ==
    CHOOSE j \in 1..Len(system.processes) :
        ToString(system.processes[j].pid) = row[1]

\* C5: with a logical CPU count >= 1 the process table written by a tick
\* has min(number of raw rows, table size) rows, each made from a raw row
\* of its own, in non-increasing order of normalized share, and no row left
\* out has a higher normalized share than a row of the table; no raw rows
\* give an empty table.
C5_RankedTable ==
    (nticks >= 1 /\ gen.processes = nticks /\ system.num_cpus >= 1) =>
        LET raws == system.processes
            n == IF Len(raws) < TopN THEN Len(raws) ELSE TopN
            chosen == { RowSource(processes[i]) : i \in 1..Len(processes) }
        IN  /\ Len(processes) = n
            /\ \A i \in 1..Len(processes) :
                \E j \in 1..Len(raws) :
                    processes[i] =
                        <<ToString(raws[j].pid), raws[j].name,
                          ToString(NormShare(raws[j])) \o ".00%">>
            /\ \A i, k \in 1..Len(processes) :
                i # k => processes[i][1] # processes[k][1]
            /\ \A i, k \in 1..Len(processes) :
                i < k => NormShare(raws[RowSource(processes[i])])
                            >= NormShare(raws[RowSource(processes[k])])
            /\ \A j \in (1..Len(raws)) \ chosen :
                \A c \in chosen : NormShare(raws[c]) >= NormShare(raws[j])

\* more raw rows than the table holds, unequal shares, two logical CPUs,
\* the lowest share first in iteration order
C5_Witness ==
    /\ nticks >= 1
    /\ gen.processes = nticks
    /\ system.num_cpus = 2
    /\ Len(system.processes) > TopN
    /\ Len(processes) = TopN
    /\ system.processes[1].cpu_usage < system.processes[2].cpu_usage

RECURSIVE SumOf(_, _)
SumOf(f, n) == IF n = 0 THEN 0 ELSE f[n] + SumOf(f, n - 1)

\* C7: the totals are always the two labelled entries "Packets In" and
\* "Packets Out" in that order, and once a tick has written them they are
\* the sums over the interfaces of the tick's raw snapshot of the packets
\* received and of the packets transmitted ((0, 0) without interfaces).
C7_NetworkTotals ==
    /\ Len(packets) = 2
    /\ packets[1][1] = "Packets In"
    /\ packets[2][1] = "Packets Out"
    /\ (nticks >= 1 /\ gen.network = nticks) =>
        LET nets == system.networks
        IN  /\ packets[1][2] = SumOf([i \in 1..Len(nets) |-> nets[i].rx], Len(nets))
            /\ packets[2][2] = SumOf([i \in 1..Len(nets) |-> nets[i].tx], Len(nets))
            /\ nets = <<>> => (packets[1][2] = 0 /\ packets[2][2] = 0)

\* three interfaces whose two sums differ
C7_Witness ==
    /\ nticks >= 1
    /\ gen.network = nticks
    /\ Len(system.networks) = 3
    /\ packets[1][2] # packets[2][2]

\* the render loop holds a read guard (lines 191-205)
ReaderHolds == rpc \in {"draw", "poll"}

\* C2: a reader holding shared access never sees a snapshot whose parts
\* were written by different executions of update_system_info.
C2_AtomicPublish ==
    ReaderHolds =>
        /\ gen.memory = gen.cpu
        /\ gen.cpu = gen.network
        /\ gen.network = gen.processes

\* C3: when a tick of the updater fails part-way, every field of the
\* shared snapshot still has its value of the last whole tick.
C3_NoPartialWrite ==
    upc = "panicked" => Snapshot = published

\* C9: the updater is never waiting for exclusive access while the render
\* loop holds shared access.
C9_NeverBlocksOnRendering ==
    ~(upc = "wait_write" /\ readers > 0)

\* C9, amended: the updater waits for exclusive access only while the
\* render loop holds shared access; it is the only task in the queue, and
\* it never waits on a free lock.
C9_BlocksOnlyOnRendering ==
    upc = "wait_write" =>
        /\ readers > 0
        /\ ~writer
        /\ waiters = <<"updater">>

\* the updater waits while the render loop, having drawn, waits for input
C9_Witness ==
    /\ upc = "wait_write"
    /\ rpc = "poll"
    /\ readers = 1

\* C10: while the process runs the updater task is never in a terminal
\* state, whatever a tick was fed.
C10_NoTerminalState ==
    Running => upc # "panicked"

\* C11: no request for the lock waits for ever: a waiting updater is
\* eventually granted exclusive access although the render loop asks for
\* shared access again in every iteration, and a waiting render loop is
\* eventually granted shared access although the updater asks for exclusive
\* access again in every tick.
C11_NoStarvation ==
    /\ (upc = "wait_write") ~> (upc = "memory" /\ writer)
    /\ (rpc = "wait_read") ~> (rpc = "draw" /\ readers > 0)

\* the render loop is queued behind an updater that holds the write guard
\* in a tick after the first one of the task
C11_Witness ==
    /\ rpc = "wait_read"
    /\ waiters = <<"reader">>
    /\ writer
    /\ nticks >= 3

\* the key the comparator of line 121 orders a raw row of the current
\* snapshot by; without a logical CPU every share that does not panic is
\* +inf, so all rows compare equal
ShareKey(p) ==
    IF system.num_cpus = 0 THEN 0 ELSE p.cpu_usage \div system.num_cpus

\* C12: the table is the tail of a stable ascending sort of the raw rows,
\* reversed: a row stands before another when its normalized share is
\* higher or, with equal shares, when it comes later in the iteration
\* order; the rows left out are below every row kept in that same order.
C12_TieBreak ==
    (nticks >= 1 /\ gen.processes = nticks) =>
        LET raws == system.processes
            n == IF Len(raws) < TopN THEN Len(raws) ELSE TopN
            src(i) == RowSource(processes[i])
            chosen == { src(i) : i \in 1..Len(processes) }
            Above(a, b) ==
                \/ ShareKey(raws[a]) > ShareKey(raws[b])
                \/ ShareKey(raws[a]) = ShareKey(raws[b]) /\ a > b
        IN  /\ Len(processes) = n
            /\ \A i \in 1..Len(processes) :
                \E j \in 1..Len(raws) : processes[i][1] = ToString(raws[j].pid)
            /\ \A i, k \in 1..Len(processes) : i < k => Above(src(i), src(k))
            /\ \A j \in (1..Len(raws)) \ chosen :
                \A c \in chosen : Above(c, j)

\* the cut falls inside a group of equal shares: more rows than the table
\* holds, all with the same share
C12_Witness ==
    /\ nticks >= 1
    /\ gen.processes = nticks
    /\ system.num_cpus >= 1
    /\ Len(system.processes) > TopN
    /\ \A i \in 1..Len(system.processes) :
        system.processes[i].cpu_usage = system.processes[1].cpu_usage
    /\ processes[1][1] = ToString(system.processes[Len(system.processes)].pid)

\* the identity name of the CPU observed by the step
ObservedNext == "CPU " \o cpuFed'[Len(cpuFed')][1]

\* C13: a step that observes a CPU name which already has an identity
\* leaves the list as long as it was, leaves every identity its name and
\* colour at its position, and leaves every identity of another name
\* (observed in this tick or not) entirely unchanged; only the buffer and
\* the series of the observed identity may differ.
C13_FrameEffect ==
    [][ (/\ cpuFed' # cpuFed
         /\ \E k \in 1..Len(cpus) : cpus[k].name = ObservedNext)
        => /\ Len(cpus') = Len(cpus)
           /\ \A k \in 1..Len(cpus) :
                /\ cpus'[k].name = cpus[k].name
                /\ cpus'[k].color = cpus[k].color
                /\ cpus[k].name # ObservedNext => cpus'[k] = cpus[k]
           /\ \E k \in 1..Len(cpus) :
                /\ cpus[k].name = ObservedNext
                /\ cpus'[k].raw_data # <<>>
                /\ cpus'[k].raw_data[Len(cpus'[k].raw_data)]
                    = cpuFed'[Len(cpuFed')][2] ]_vars

\* two identities exist, the first was observed again while the second
\* was absent, and the second still holds the one sample it was given
C13_Witness ==
    /\ Len(cpuFed) >= 3
    /\ cpuFed[1][1] # cpuFed[2][1]
    /\ cpuFed[3][1] = cpuFed[1][1]
    /\ Len(cpus) = 2
    /\ cpus[2].raw_data = <<cpuFed[2][2]>>
    /\ cpus[2].data = << <<1, cpuFed[2][2]>> >>
    /\ cpuFed[3][2] # cpuFed[2][2]

\* C14: the render loop holds no read guard while it waits for keyboard
\* input, and the updater holds no write guard while it sleeps.
C14_GuardsHeldOnlyForTheWork ==
    /\ rpc = "poll" => readers = 0
    /\ upc = "sleep" => ~writer

\* the number of executions of update_system_info so far, capped at the
\* capacity
SamplesDue == IF nticks < Cap THEN nticks ELSE Cap

\* every observation so far reported the same CPU name
SameCpuName == \A i \in 1..Len(cpuFed) : cpuFed[i][1] = cpuFed[1][1]

\* C15: after n >= 1 whole executions of update_system_info that all
\* reported the same CPU name there is one identity, and the memory
\* buffer, the memory series, the identity's buffer and its series all
\* have min(n, capacity) elements.
C15_LengthsAgree ==
    (nticks >= 1 /\ gen.processes = nticks /\ SameCpuName) =>
        /\ Len(cpus) = 1
        /\ Len(memory_usage) = SamplesDue
        /\ Len(memory_usage_as_tuple) = SamplesDue
        /\ Len(cpus[1].raw_data) = SamplesDue
        /\ Len(cpus[1].data) = SamplesDue

\* more executions than the capacity, all with one CPU name
C15_Witness ==
    /\ nticks > Cap
    /\ gen.processes = nticks
    /\ SameCpuName
    /\ Len(cpus) = 1
    /\ Len(cpus[1].raw_data) = Cap

\* C16: whenever the render loop holds the read guard the snapshot has at
\* least one memory sample and one CPU identity, and after k ticks of the
\* updater task it has min(k + 1, capacity) memory samples.
C16_NeverEmpty ==
    ReaderHolds =>
        /\ Len(memory_usage) >= 1
        /\ Len(cpus) >= 1
        /\ nticks >= 1
        /\ LET k == nticks - 1
           IN  Len(memory_usage) = (IF k + 1 < Cap THEN k + 1 ELSE Cap)

\* the render loop draws before the updater task has run a tick
C16_Witness ==
    /\ rpc = "draw"
    /\ nticks = 1
    /\ upc = "write"
    /\ Len(memory_usage) = 1

====
